---------------------------- MODULE Spec2Model ----------------------------
(***************************************************************************)
(* A model of the weather agent team demo: the tools of my_agent/tools.py  *)
(* (get_weather, get_current_time), the module-level construction of the   *)
(* agents in my_agent/agent.py, the coroutine call_agent_async, and the    *)
(* guardrail pipeline the root agent is wired into.                        *)
(*                                                                         *)
(* Python strings that the code inspects character by character (a city)   *)
(* are sequences of one-character strings; a dict is a function whose      *)
(* DOMAIN is its key set; None is the value None.                          *)
(***************************************************************************)
EXTENDS Integers, Sequences, FiniteSets, TLC

VARIABLES
    \* ---- tools.py: one tool invocation
    tpc,            \* "ready" before the call, "done" after it
    tool,           \* the tool that was invoked ("none" before the call)
    city,           \* the city argument
    state,          \* tool_context.state: the session state dict
    now,            \* what datetime.datetime.now(tz) renders to
    result,         \* the dict the tool returned (None before the call)
    \* ---- agent.py: module initialisation
    mpc,            \* position in the module's top-level code
    imported,       \* names bound by the two star imports
    greeting_agent, \* None or the agent
    farewell_agent, \* None or the agent
    globals_,       \* names bound by the module's own top-level statements
    raised,         \* the uncaught exception that ended the module, or None
    else_ran,       \* the 'Cannot create root agent' branch was executed
    \* ---- agent.py: run_team_conversation and call_agent_async
    turn,           \* calls of call_agent_async made so far
    cpc,            \* position in the coroutine
    stream,         \* the events runner.run_async has still to yield
    yielded,        \* the events it has yielded so far
    final_response_text,
    printed,        \* the lines the current call has printed
    \* ---- the root agent's turn inside the runner
    rpc,            \* position of the runner in the turn
    guard_cfg,      \* what the guardrails disallow
    request,        \* the user's message of the turn
    tool_call,      \* the city of the function call the model asked for
    session,        \* the session state of the run
    llm_calls,      \* model invocations of the turn so far
    model_log,      \* requests that reached the root agent's model
    tool_log        \* cities get_weather was executed for

toolVars == <<tpc, tool, city, state, now, result>>
modVars  == <<mpc, imported, greeting_agent, farewell_agent, globals_, raised, else_ran>>
callVars == <<turn, cpc, stream, yielded, final_response_text, printed>>
runVars  == <<rpc, guard_cfg, request, tool_call, session, llm_calls, model_log, tool_log>>
vars     == <<toolVars, modVars, callVars, runVars>>

None == "None"

-----------------------------------------------------------------------------
(* Bounds of the model *)

\* separators (spaces, hyphens) inserted into a city name
MaxSeps == 1
\* letters of a city name written in upper case (besides all of them)
MaxUpper == 2

-----------------------------------------------------------------------------
(* Python str operations on sequences of characters *)

Uppers == <<"A","B","C","D","E","F","G","H","I","J","K","L","M",
            "N","O","P","Q","R","S","T","U","V","W","X","Y","Z">>
Lowers == <<"a","b","c","d","e","f","g","h","i","j","k","l","m",
            "n","o","p","q","r","s","t","u","v","w","x","y","z">>

LowerChar(c) ==
    IF \E i \in 1..Len(Uppers) : Uppers[i] = c
    THEN Lowers[CHOOSE i \in 1..Len(Uppers) : Uppers[i] = c]
    ELSE c

UpperChar(c) ==
    IF \E i \in 1..Len(Lowers) : Lowers[i] = c
    THEN Uppers[CHOOSE i \in 1..Len(Lowers) : Lowers[i] = c]
    ELSE c

\* str.lower()
lower(s) == [i \in 1..Len(s) |-> LowerChar(s[i])]

\* str.replace(" ", "")
IsNotSpace(c) == c # " "
replace_space(s) == SelectSeq(s, IsNotSpace)

\* str.capitalize(): first character upper-cased, the rest lower-cased
capitalize(s) ==
    [i \in 1..Len(s) |-> IF i = 1 THEN UpperChar(s[i]) ELSE LowerChar(s[i])]

\* the decimal digits of a natural number
DigitChars == <<"0","1","2","3","4","5","6","7","8","9">>

RECURSIVE Digits(_)
Digits(n) ==
    IF n < 10 THEN <<DigitChars[n + 1]>>
    ELSE Digits(n \div 10) \o <<DigitChars[(n % 10) + 1]>>

\* format(x, ".0f") of the number num/den (den > 0, num >= 0): the nearest
\* whole number, a tie going to the even one, in decimal digits
Format0f(num, den) ==
    LET q == num \div den
        r == num % den
        n == IF 2 * r < den THEN q
             ELSE IF 2 * r > den THEN q + 1
             ELSE IF q % 2 = 0 THEN q ELSE q + 1
    IN  Digits(n)

\* dict.get(key, default)
DictGet(d, key, default) == IF key \in DOMAIN d THEN d[key] ELSE default

EmptyDict == <<>>

-----------------------------------------------------------------------------
(* tools.py: get_weather *)

newyork == <<"n","e","w","y","o","r","k">>
london  == <<"l","o","n","d","o","n">>
tokyo   == <<"t","o","k","y","o">>
paris   == <<"p","a","r","i","s">>

mock_weather_db ==
    ( newyork :> [temp_c |-> 25, condition |-> "sunny"] ) @@
    ( london  :> [temp_c |-> 15, condition |-> "cloudy"] ) @@
    ( tokyo   :> [temp_c |-> 18, condition |-> "light rain"] )

preferred_unit(st) == DictGet(st, "user_preference_temperature_unit", "Celsius")

city_normalized_no_lower(c) == replace_space(c)

city_normalized(c) == replace_space(lower(c))

\* the Fahrenheit value as the fraction <<numerator, denominator>>
fahrenheit_no_offset(temp_c) == <<temp_c * 9, 5>>

fahrenheit(temp_c) == <<(temp_c * 9) + (32 * 5), 5>>

temp_value(temp_c, unit) ==
    IF unit = "Fahrenheit" THEN fahrenheit(temp_c) ELSE <<temp_c, 1>>

temp_unit(unit) == IF unit = "Fahrenheit" THEN "°F" ELSE "°C"

\* the pieces of the f-string of the report
report(c, data, unit) ==
    [ city        |-> capitalize(c),
      condition   |-> data.condition,
      temperature |-> Format0f(temp_value(data.temp_c, unit)[1],
                               temp_value(data.temp_c, unit)[2]),
      unit        |-> temp_unit(unit) ]

get_weather(c, st) ==
    IF city_normalized(c) \in DOMAIN mock_weather_db
    THEN [ status |-> "success",
           report |-> report(c, mock_weather_db[city_normalized(c)], preferred_unit(st)) ]
    ELSE [ status |-> "error",
           error_message |-> <<"Sorry, I don't have weather information for '", c, "'.">> ]

\* tool_context.state after the call
get_weather_state(c, st) ==
    IF city_normalized(c) \in DOMAIN mock_weather_db
    THEN ("last_city_checked_stateful" :> c) @@ st
    ELSE st

-----------------------------------------------------------------------------
(* tools.py: get_current_time *)

new_york == <<"n","e","w"," ","y","o","r","k">>

get_current_time(c, t) ==
    IF lower(c) = new_york
    THEN [ status |-> "success",
           report |-> <<"The current time in ", c, " is ", t>> ]
    ELSE ( "stauts" :> "error" ) @@
         ( "error_message" :> <<"Sorry, I don't have timezone information for ", c, ".">> )

-----------------------------------------------------------------------------
(* The inputs of a tool invocation *)

Separators == {" ", "-"}

BaseCities == {newyork, london, tokyo, paris}

UpperSets(n) ==
    {U \in SUBSET (1..n) : Cardinality(U) <= MaxUpper} \cup {1..n}

WithUpper(s, U) == [i \in 1..Len(s) |-> IF i \in U THEN UpperChar(s[i]) ELSE s[i]]

InsertAt(s, p, c) == SubSeq(s, 1, p) \o <<c>> \o SubSeq(s, p + 1, Len(s))

RECURSIVE WithSeps(_, _)
WithSeps(s, k) ==
    IF k = 0 THEN {s}
    ELSE LET prev == WithSeps(s, k - 1)
         IN  prev \cup UNION { {InsertAt(t, p, c) : p \in 0..Len(t), c \in Separators}
                                : t \in prev }

CityArgs ==
    UNION { UNION { WithSeps(WithUpper(b, U), MaxSeps) : U \in UpperSets(Len(b)) }
            : b \in BaseCities }

Units == {"Celsius", "Fahrenheit", "fahrenheit", "Kelvin"}

SessionStates ==
    {EmptyDict} \cup {("user_preference_temperature_unit" :> u) : u \in Units}

Clock == {"2026-01-01 09:00:00 EST-0500", "2026-07-01 09:00:00 EDT-0400"}

-----------------------------------------------------------------------------
(* A tool invoked once on an input *)

ToolsIdle ==
    /\ tpc = "idle" /\ tool = "none" /\ city = <<>> /\ state = EmptyDict
    /\ now = "" /\ result = EmptyDict

InitTools ==
    /\ tpc = "ready"
    /\ tool = "none"
    /\ city \in CityArgs
    /\ state \in SessionStates
    /\ now \in Clock
    /\ result = EmptyDict

GetWeather ==
    /\ tpc = "ready"
    /\ tool' = "get_weather"
    /\ result' = get_weather(city, state)
    /\ state' = get_weather_state(city, state)
    /\ tpc' = "done"
    /\ UNCHANGED <<city, now>>
    /\ UNCHANGED <<modVars, callVars, runVars>>

GetCurrentTime ==
    /\ tpc = "ready"
    /\ tool' = "get_current_time"
    /\ result' = get_current_time(city, now)
    /\ tpc' = "done"
    /\ UNCHANGED <<city, state, now>>
    /\ UNCHANGED <<modVars, callVars, runVars>>

-----------------------------------------------------------------------------
(* agent.py: the module's top-level code *)

\* what "from tools import *" binds
ToolNames == {"get_weather", "get_current_time", "say_hello", "say_goodbye"}

\* what "from guardrails import *" can bind
GuardrailNames == {"block_keyword_guardrail", "block_tool_guardrail"}

\* globals()
Globals == imported \cup globals_

\* bool(s) of a str
Truthy(s) == s # ""

ModIdle ==
    /\ mpc = "idle" /\ imported = {} /\ greeting_agent = None
    /\ farewell_agent = None /\ globals_ = {} /\ raised = None
    /\ else_ran = FALSE

InitModule ==
    /\ mpc = "greeting"
    /\ imported \in {ToolNames \cup g : g \in SUBSET GuardrailNames}
    /\ greeting_agent = None
    /\ farewell_agent = None
    /\ globals_ = {}
    /\ raised = None
    /\ else_ran = FALSE

\* lines 30-45; constructed says whether LiteLlm(...) and Agent(...) return.
\* The handler formats greeting_agent.model, and greeting_agent is still None.
CreateGreetingAgent(constructed) ==
    /\ mpc = "greeting"
    /\ globals_' = globals_ \cup {"greeting_agent"}
    /\ IF constructed /\ "say_hello" \in Globals
       THEN /\ greeting_agent' = "greeting_agent"
            /\ mpc' = "farewell"
            /\ UNCHANGED raised
       ELSE /\ greeting_agent' = None
            /\ raised' = "AttributeError"
            /\ mpc' = "crashed"
    /\ UNCHANGED <<imported, farewell_agent, else_ran>>
    /\ UNCHANGED <<toolVars, callVars, runVars>>

\* lines 47-62; the handler formats greeting_agent.model here too
CreateFarewellAgent(constructed) ==
    /\ mpc = "farewell"
    /\ globals_' = globals_ \cup {"farewell_agent"}
    /\ IF constructed /\ "say_goodbye" \in Globals
       THEN /\ farewell_agent' = "farewell_agent"
            /\ mpc' = "root"
            /\ UNCHANGED raised
       ELSE /\ farewell_agent' = None
            /\ IF greeting_agent = None
               THEN raised' = "AttributeError" /\ mpc' = "crashed"
               ELSE mpc' = "root" /\ UNCHANGED raised
    /\ UNCHANGED <<imported, greeting_agent, else_ran>>
    /\ UNCHANGED <<toolVars, callVars, runVars>>

\* the condition of lines 68-70: "in" binds tighter than "and", so the first
\* two names are string literals tested for truth and only the last one is
\* looked up in globals()
root_agent_guard(g) ==
    /\ greeting_agent # None
    /\ farewell_agent # None
    /\ Truthy("get_weather")
    /\ Truthy("block_keyword_guardrail")
    /\ "block_tool_guardrail" \in g

\* the names Agent(...) of lines 74-86 reads
root_agent_names == {"get_weather", "block_keyword_guardrail", "block_tool_guardrail"}

\* lines 64-94
CreateRootAgent ==
    /\ mpc = "root"
    /\ LET g == Globals \cup {"root_agent", "runner_root"}
       IN  IF root_agent_guard(g)
           THEN IF root_agent_names \subseteq g
                THEN /\ globals_' = globals_ \cup {"root_agent", "runner_root",
                                                   "root_agent_model", "weather_agent_team"}
                     /\ mpc' = "root_var"
                     /\ UNCHANGED <<raised, else_ran>>
                ELSE /\ globals_' = globals_ \cup {"root_agent", "runner_root",
                                                   "root_agent_model"}
                     /\ raised' = "NameError"
                     /\ mpc' = "crashed"
                     /\ UNCHANGED else_ran
           ELSE /\ globals_' = globals_ \cup {"root_agent", "runner_root"}
                /\ else_ran' = TRUE
                /\ mpc' = "root_var"
                /\ UNCHANGED raised
    /\ UNCHANGED <<imported, greeting_agent, farewell_agent>>
    /\ UNCHANGED <<toolVars, callVars, runVars>>

\* lines 122-128: the value of root_agent_var_name
root_agent_var_name(g) ==
    IF "weather_agent_team" \in g THEN "weather_agent_team" ELSE "root_agent"

\* globals()[name] is an agent: root_agent is bound to None (line 65)
GlobalIsAgent(g, name) == name \in g /\ name # "root_agent"

\* lines 122-190
DefineRunTeamConversation ==
    /\ mpc = "root_var"
    /\ LET g == Globals \cup {"call_agent_async", "root_agent_var_name"}
       IN  IF GlobalIsAgent(g, root_agent_var_name(g))
           THEN globals_' = globals_ \cup {"call_agent_async", "root_agent_var_name",
                                           "run_team_conversation"}
           ELSE globals_' = globals_ \cup {"call_agent_async", "root_agent_var_name"}
    /\ mpc' = "main"
    /\ UNCHANGED <<imported, greeting_agent, farewell_agent, raised, else_ran>>
    /\ UNCHANGED <<toolVars, callVars, runVars>>

\* lines 192-196: asyncio.run(run_team_conversation()); a NameError of
\* run_team_conversation is caught and printed
Main ==
    /\ mpc = "main"
    /\ mpc' = IF "run_team_conversation" \in Globals
              THEN "conversation" ELSE "error_printed"
    /\ UNCHANGED <<imported, greeting_agent, farewell_agent, globals_, raised, else_ran>>
    /\ UNCHANGED <<toolVars, callVars, runVars>>

-----------------------------------------------------------------------------
(* agent.py: call_agent_async *)

\* events runner.run_async yields in one call
MaxEvents == 2

Texts == {"", "It is sunny.", "Blocked."}
ErrorMessages == {"", "quota"}

\* an event: is_final_response(), content.parts[0].text ("" when there is no
\* content or no part), actions.escalate, error_message ("" when None)
Events ==
    [final : BOOLEAN, text : Texts, escalate : BOOLEAN, error_message : ErrorMessages]

Streams == UNION { [1..n -> Events] : n \in 0..MaxEvents }

DefaultResponse == <<"Agent did not produce a final response.">>

\* lines 112-116
final_text(event, current) ==
    IF event.text # "" THEN <<event.text>>
    ELSE IF event.escalate
         THEN <<"Agent escalated: ",
                IF event.error_message # "" THEN event.error_message
                ELSE "No specific message. ">>
         ELSE current

\* lines 171-175: the queries run_team_conversation awaits one after another
Queries ==
    << "What is the weather in New York?",
       "How about Paris?",
       "Tell me the weather in London." >>

CallIdle ==
    /\ turn = 0 /\ cpc = "idle" /\ stream = <<>> /\ yielded = <<>>
    /\ final_response_text = <<>> /\ printed = <<>>

\* lines 166-175 and 96-107: run_team_conversation awaits the next call; the
\* call prints the query, sets the default and starts runner.run_async, which
\* is to yield events
CallAgentAsync(events) ==
    /\ mpc = "conversation"
    /\ cpc \in {"idle", "returned"}
    /\ turn < Len(Queries)
    /\ turn' = turn + 1
    /\ printed' = <<[line |-> ">>> User Query", text |-> <<Queries[turn + 1]>>]>>
    /\ final_response_text' = DefaultResponse
    /\ stream' = events
    /\ yielded' = <<>>
    /\ cpc' = "iterating"
    /\ UNCHANGED <<toolVars, modVars, runVars>>

\* lines 107-120, one iteration of the async for: the response line is printed
\* in the loop body, after the if statement that breaks on the final event
NextEvent ==
    /\ cpc = "iterating"
    /\ stream # <<>>
    /\ LET event == Head(stream)
           event_line == [line |-> "[Event]",
                          text |-> <<IF event.final THEN "Final: True" ELSE "Final: False",
                                     event.text>>]
       IN  /\ yielded' = Append(yielded, event)
           /\ stream' = Tail(stream)
           /\ IF event.final
              THEN /\ final_response_text' = final_text(event, final_response_text)
                   /\ printed' = Append(printed, event_line)
                   /\ cpc' = "returned"
              ELSE /\ printed' = printed \o
                          <<event_line,
                            [line |-> "<<< Agent Response", text |-> final_response_text]>>
                   /\ UNCHANGED <<final_response_text, cpc>>
    /\ UNCHANGED turn
    /\ UNCHANGED <<toolVars, modVars, runVars>>

\* the async for ends when the runner yields no more events
StreamExhausted ==
    /\ cpc = "iterating"
    /\ stream = <<>>
    /\ cpc' = "returned"
    /\ UNCHANGED <<turn, stream, yielded, final_response_text, printed>>
    /\ UNCHANGED <<toolVars, modVars, runVars>>

\* lines 177-189, after the last call has returned
InspectFinalState ==
    /\ mpc = "conversation"
    /\ cpc = "returned"
    /\ turn = Len(Queries)
    /\ mpc' = "finished"
    /\ UNCHANGED <<imported, greeting_agent, farewell_agent, globals_, raised, else_ran>>
    /\ UNCHANGED <<toolVars, callVars, runVars>>

-----------------------------------------------------------------------------
(* The root agent and one turn of it inside the runner *)

\* model invocations in one turn
MaxLlmCalls == 2
\* characters of a user message
MaxRequestLen == 3

\* agent.py lines 74-86, without the tool guardrail
weather_agent_team_no_tool_guard ==
    [ name                  |-> "weather_agent_v2",
      tools                 |-> {"get_weather"},
      sub_agents            |-> {"greeting_agent", "farewell_agent"},
      output_key            |-> "last_weather_report",
      before_model_callback |-> "block_keyword_guardrail",
      before_tool_callback  |-> None ]

\* agent.py lines 74-86
weather_agent_team ==
    [ name                  |-> "weather_agent_v2",
      tools                 |-> {"get_weather"},
      sub_agents            |-> {"greeting_agent", "farewell_agent"},
      output_key            |-> "last_weather_report",
      before_model_callback |-> "block_keyword_guardrail",
      before_tool_callback  |-> "block_tool_guardrail" ]

\* agent.py lines 136-138
initial_state == ("user_preference_temperature_unit" :> "Celsius")

\* a substring check on text
Contains(text, sub) ==
    \E i \in 1..(Len(text) - Len(sub) + 1) : SubSeq(text, i, i + Len(sub) - 1) = sub

\* the guardrails: each answers in the place of the model or of the tool
\* (TRUE) or lets the call through (FALSE)
block_keyword_guardrail(text) == Contains(text, guard_cfg.keyword)

block_tool_guardrail(tool_name, c) ==
    tool_name = "get_weather" /\ Contains(c, guard_cfg.city)

RequestChars == {"a", "b"}
Requests == UNION { [1..n -> RequestChars] : n \in 1..MaxRequestLen }
Keywords == {<<"b">>, <<"a", "b">>}

Paris == <<"P","a","r","i","s">>
Tokyo == <<"T","o","k","y","o">>
NewYork == <<"N","e","w"," ","Y","o","r","k">>
ToolCities == {Paris, Tokyo, NewYork, london}
DisallowedCities == {Paris, Tokyo}

RunIdle ==
    /\ rpc = "off" /\ guard_cfg = EmptyDict /\ request = <<>> /\ tool_call = <<>>
    /\ session = EmptyDict /\ llm_calls = 0 /\ model_log = {} /\ tool_log = {}

InitRun ==
    /\ rpc = "idle"
    /\ guard_cfg \in [keyword : Keywords, city : DisallowedCities]
    /\ request = <<>>
    /\ tool_call = <<>>
    /\ session = initial_state
    /\ llm_calls = 0
    /\ model_log = {}
    /\ tool_log = {}

\* runner.run_async(new_message=content): a turn starts
UserMessage(text) ==
    /\ rpc = "idle"
    /\ request' = text
    /\ tool_call' = <<>>
    /\ llm_calls' = 0
    /\ model_log' = {}
    /\ tool_log' = {}
    /\ rpc' = "before_model"
    /\ UNCHANGED <<guard_cfg, session>>
    /\ UNCHANGED <<toolVars, modVars, callVars>>

\* before a model invocation the agent's before_model_callback is called; a
\* response it returns ends the turn in the place of the model's
BeforeModelCallback ==
    /\ rpc = "before_model"
    /\ IF /\ weather_agent_team.before_model_callback = "block_keyword_guardrail"
          /\ block_keyword_guardrail(request)
       THEN /\ rpc' = "idle"
            /\ session' = (weather_agent_team.output_key :> "blocked") @@ session
       ELSE /\ rpc' = "model"
            /\ UNCHANGED session
    /\ UNCHANGED <<guard_cfg, request, tool_call, llm_calls, model_log, tool_log>>
    /\ UNCHANGED <<toolVars, modVars, callVars>>

\* the model answers with a text, which ends the turn and is saved under
\* output_key
ModelAnswers ==
    /\ rpc = "model"
    /\ model_log' = model_log \cup {request}
    /\ llm_calls' = llm_calls + 1
    /\ session' = (weather_agent_team.output_key :> "answer") @@ session
    /\ rpc' = "idle"
    /\ UNCHANGED <<guard_cfg, request, tool_call, tool_log>>
    /\ UNCHANGED <<toolVars, modVars, callVars>>

\* the model asks for get_weather(city=c)
ModelCallsTool(c) ==
    /\ rpc = "model"
    /\ llm_calls < MaxLlmCalls
    /\ "get_weather" \in weather_agent_team.tools
    /\ model_log' = model_log \cup {request}
    /\ llm_calls' = llm_calls + 1
    /\ tool_call' = c
    /\ rpc' = "before_tool"
    /\ UNCHANGED <<guard_cfg, request, session, tool_log>>
    /\ UNCHANGED <<toolVars, modVars, callVars>>

\* before a tool runs the agent's before_tool_callback is called; a dict it
\* returns is the tool's result and the tool is not run
BeforeToolCallback ==
    /\ rpc = "before_tool"
    /\ IF /\ weather_agent_team.before_tool_callback = "block_tool_guardrail"
          /\ block_tool_guardrail("get_weather", tool_call)
       THEN rpc' = "before_model"
       ELSE rpc' = "tool"
    /\ UNCHANGED <<guard_cfg, request, tool_call, session, llm_calls, model_log, tool_log>>
    /\ UNCHANGED <<toolVars, modVars, callVars>>

\* get_weather(tool_call, tool_context) runs on the session state; its result
\* goes back to the model
ExecuteTool ==
    /\ rpc = "tool"
    /\ tool_log' = tool_log \cup {tool_call}
    /\ session' = get_weather_state(tool_call, session)
    /\ rpc' = "before_model"
    /\ UNCHANGED <<guard_cfg, request, tool_call, llm_calls, model_log>>
    /\ UNCHANGED <<toolVars, modVars, callVars>>

-----------------------------------------------------------------------------
(* Specifications *)

\* a tool invoked once on an input
InitSpecTools == InitTools /\ ModIdle /\ CallIdle /\ RunIdle

NextTools ==
    \/ GetWeather
    \/ GetCurrentTime

SpecTools == InitSpecTools /\ [][NextTools]_vars

\* agent.py run as a script: the top-level code, then the conversation
InitSpecProgram == ToolsIdle /\ InitModule /\ CallIdle /\ RunIdle

NextProgram ==
    \/ \E constructed \in BOOLEAN : CreateGreetingAgent(constructed)
    \/ \E constructed \in BOOLEAN : CreateFarewellAgent(constructed)
    \/ CreateRootAgent
    \/ DefineRunTeamConversation
    \/ Main
    \/ \E events \in Streams : CallAgentAsync(events)
    \/ NextEvent
    \/ StreamExhausted
    \/ InspectFinalState

SpecProgram == InitSpecProgram /\ [][NextProgram]_vars

\* the turns of the root agent
InitSpecRun == ToolsIdle /\ ModIdle /\ CallIdle /\ InitRun

NextRun ==
    \/ \E text \in Requests : UserMessage(text)
    \/ BeforeModelCallback
    \/ ModelAnswers
    \/ \E c \in ToolCities : ModelCallsTool(c)
    \/ BeforeToolCallback
    \/ ExecuteTool

SpecRun == InitSpecRun /\ [][NextRun]_vars

-----------------------------------------------------------------------------
(* Properties *)

\* the city lower-cased and with all spaces removed, character by character
RECURSIVE LoweredWithoutSpaces(_)
LoweredWithoutSpaces(s) ==
    IF s = <<>> THEN <<>>
    ELSE IF Head(s) = " " THEN LoweredWithoutSpaces(Tail(s))
    ELSE <<LowerChar(Head(s))>> \o LoweredWithoutSpaces(Tail(s))

NamedCities == {newyork, london, tokyo}

WeatherReturned == tpc = "done" /\ tool = "get_weather"

\* C1: get_weather returns status 'success' with a 'report' key exactly when
\* the city, lower-cased and with all spaces removed, is newyork, london or
\* tokyo; otherwise status 'error' with an 'error_message' key and no 'report'
\* key, whatever the session state holds.
C1_SuccessExactlyForKnownCities ==
    WeatherReturned =>
        /\ "status" \in DOMAIN result
        /\ IF LoweredWithoutSpaces(city) \in NamedCities
           THEN result["status"] = "success" /\ "report" \in DOMAIN result
           ELSE /\ result["status"] = "error"
                /\ "error_message" \in DOMAIN result
                /\ "report" \notin DOMAIN result

\* a known city written with a space or an upper-case letter was looked up
C1_Witness ==
    /\ WeatherReturned
    /\ LoweredWithoutSpaces(city) \in NamedCities
    /\ Len(city) > Len(LoweredWithoutSpaces(city))
    /\ city[1] # LowerChar(city[1])
    /\ result["status"] = "success"

FahrenheitDigits ==
    ( newyork :> <<"7","7">> ) @@ ( london :> <<"5","9">> ) @@ ( tokyo :> <<"6","4">> )

CelsiusDigits ==
    ( newyork :> <<"2","5">> ) @@ ( london :> <<"1","5">> ) @@ ( tokyo :> <<"1","8">> )

\* C3: for a known city the report gives 77, 59 or 64 (New York, London,
\* Tokyo) with the unit °F when user_preference_temperature_unit is
\* "Fahrenheit", and the stored Celsius value with the unit °C when the key
\* is absent or holds anything else.
C3_TemperatureFollowsPreference ==
    (WeatherReturned /\ LoweredWithoutSpaces(city) \in NamedCities) =>
        /\ "report" \in DOMAIN result
        /\ IF /\ "user_preference_temperature_unit" \in DOMAIN state
              /\ state["user_preference_temperature_unit"] = "Fahrenheit"
           THEN /\ result["report"].temperature = FahrenheitDigits[LoweredWithoutSpaces(city)]
                /\ result["report"].unit = "°F"
           ELSE /\ result["report"].temperature = CelsiusDigits[LoweredWithoutSpaces(city)]
                /\ result["report"].unit = "°C"

\* Tokyo reported in Fahrenheit: 64.4 rounds to 64
C3_Witness ==
    /\ WeatherReturned
    /\ LoweredWithoutSpaces(city) = tokyo
    /\ "user_preference_temperature_unit" \in DOMAIN state
    /\ state["user_preference_temperature_unit"] = "Fahrenheit"
    /\ result["report"].temperature = <<"6","4">>
    /\ result["report"].unit = "°F"

\* C5: get_current_time returns a dict with a 'status' key: 'success' with a
\* 'report' when the lower-cased city is "new york", 'error' with an
\* 'error_message' for every other city.
C5_TimeResultHasStatus ==
    (tpc = "done" /\ tool = "get_current_time") =>
        /\ "status" \in DOMAIN result
        /\ IF lower(city) = new_york
           THEN result["status"] = "success" /\ "report" \in DOMAIN result
           ELSE result["status"] = "error" /\ "error_message" \in DOMAIN result

AllEvents == yielded \o stream

HasFinalEvent == \E i \in 1..Len(AllEvents) : AllEvents[i].final

FirstFinalEvent ==
    AllEvents[CHOOSE i \in 1..Len(AllEvents) :
                /\ AllEvents[i].final
                /\ \A j \in 1..(i - 1) : ~AllEvents[j].final]

\* C4: when the event stream of the call holds a final-response event, the
\* line '<<< Agent Response: ...' has been printed with the final response
\* text taken from that event by the time call_agent_async returns.
C4_FinalResponsePrinted ==
    (cpc = "returned" /\ HasFinalEvent) =>
        \E k \in 1..Len(printed) :
            /\ printed[k].line = "<<< Agent Response"
            /\ printed[k].text = final_text(FirstFinalEvent, DefaultResponse)

ModuleEnded == mpc \in {"crashed", "main", "conversation", "error_printed", "finished"}

RootAgentPreconditions ==
    /\ greeting_agent # None
    /\ farewell_agent # None
    /\ {"get_weather", "block_keyword_guardrail", "block_tool_guardrail"} \subseteq Globals

\* C6: weather_agent_team is created exactly when both sub-agents were
\* created and get_weather, block_keyword_guardrail and block_tool_guardrail
\* are in globals(); in every other case the 'Cannot create root agent'
\* branch runs and neither the root agent nor run_team_conversation is
\* defined.
C6_RootAgentCreatedIffPreconditions ==
    ModuleEnded =>
        IF RootAgentPreconditions
        THEN "weather_agent_team" \in Globals
        ELSE /\ else_ran
             /\ "weather_agent_team" \notin Globals
             /\ "run_team_conversation" \notin Globals

\* C2: on the root agent no request holding a disallowed keyword reaches the
\* model, and no tool call for a disallowed city reaches get_weather: it is
\* not executed for that city and the session state is not written by it.
C2_GuardrailsBlockBeforeModelAndTool ==
    rpc # "off" =>
        /\ rpc = "model" => ~Contains(request, guard_cfg.keyword)
        /\ \A r \in model_log : ~Contains(r, guard_cfg.keyword)
        /\ rpc = "tool" => ~Contains(tool_call, guard_cfg.city)
        /\ \A c \in tool_log : ~Contains(c, guard_cfg.city)
        /\ "last_city_checked_stateful" \in DOMAIN session =>
               ~Contains(session["last_city_checked_stateful"], guard_cfg.city)

\* a tool call for a disallowed city was answered by the guardrail in a turn
\* in which get_weather ran for another city
C2_Witness ==
    /\ rpc = "before_model"
    /\ llm_calls > 1
    /\ tool_call # <<>>
    /\ Contains(tool_call, guard_cfg.city)
    /\ tool_log # {}
    /\ "last_city_checked_stateful" \in DOMAIN session
=============================================================================
